---- MODULE Spec2Model ----
(***************************************************************************)
(* AddNewPoster.py: validate an image's aspect ratio, convert it to a      *)
(* 595x842 JPEG in WORK_DIR, regenerate index.html from the directory      *)
(* listing, then git add / commit / push.                                  *)
(*                                                                         *)
(* File names are sequences of character codes, so that lower(),           *)
(* endswith(), startswith(), splitext(), lstrip() and the code-point       *)
(* order used by list.sort() are computed as Python computes them.         *)
(***************************************************************************)
EXTENDS Integers, Sequences, FiniteSets, TLC

VARIABLES
    pc,        \* the step the process is at
    argv,      \* sys.argv[1:], a sequence of paths
    fs,        \* the filesystem: path -> content
    staged,    \* git index: snapshot of WORK_DIR taken by the last git add
    head,      \* git HEAD: snapshot of the last commit
    remote,    \* what the configured remote holds
    lastMsg,   \* message of the last commit
    cmds,      \* git subcommands this process has run, with their results
    written,   \* paths this process has opened for writing
    stdout,    \* diagnostics this process has printed, in order
    exitCode,  \* -1 while running, else the process exit status
    outPath,   \* output_path returned by convert_image (NoPath before)
    fs0,       \* the filesystem as it was when this process started
    run        \* number of the current invocation

vars == <<pc, argv, fs, staged, head, remote, lastMsg, cmds, written, stdout,
          exitCode, outPath, fs0, run>>

-----------------------------------------------------------------------------
(* Program constants *)

TARGET_WIDTH == 595
TARGET_HEIGHT == 842
JPEG_QUALITY == 90

\* A4_RATIO = 1 / 1.41421356 = 25000000 / 35355339, and
\* RATIO_TOLERANCE = 0.02 = 1 / TOL_DEN.  The denominator 35355339 is kept in
\* two base-10000 limbs, 3535 and 5339, so that every product stays in range.
LIMB == 10000
A4_NUM_HI == 2500
A4_DEN_HI == 3535
A4_DEN_LO == 5339
TOL_DEN == 50

\* Number of invocations explored.
MaxRuns == 2

-----------------------------------------------------------------------------
(* Strings *)

DOT == 46
UNDERSCORE == 95

EXT_JPG == <<46, 106, 112, 103>>          \* ".jpg"
EXT_JPEG == <<46, 106, 112, 101, 103>>    \* ".jpeg"
EXT_PNG == <<46, 112, 110, 103>>          \* ".png"

N_B_JPEG == <<66, 46, 74, 80, 69, 71>>                    \* "B.JPEG"
N_h_jpg == <<46, 104, 46, 106, 112, 103>>                 \* ".h.jpg"
N_n_txt == <<110, 46, 116, 120, 116>>                     \* "n.txt"
N_e_png == <<95, 95, 101, 46, 112, 110, 103>>             \* "__e.png"
N_e_jpg == <<95, 95, 101, 46, 106, 112, 103>>             \* "__e.jpg"
N_p_png == <<112, 46, 112, 110, 103>>                     \* "p.png"
N_p_jpg == <<112, 46, 106, 112, 103>>                     \* "p.jpg"
N_index == <<105, 110, 100, 101, 120, 46, 104, 116, 109, 108>>  \* "index.html"

\* str.lower() on one ASCII character
LowerChar(c) == IF c >= 65 /\ c <= 90 THEN c + 32 ELSE c

\* str.lower()
Lower(s) == [i \in 1..Len(s) |-> LowerChar(s[i])]

\* str.endswith(suffix)
EndsWith(s, suf) ==
    /\ Len(s) >= Len(suf)
    /\ SubSeq(s, Len(s) - Len(suf) + 1, Len(s)) = suf

\* str.startswith(prefix)
StartsWith(s, pre) ==
    /\ Len(s) >= Len(pre)
    /\ SubSeq(s, 1, Len(pre)) = pre

\* str.lstrip('_')
LStripUnderscore(s) ==
    LET n == Cardinality({k \in 1..Len(s) : \A i \in 1..k : s[i] = UNDERSCORE})
    IN  SubSeq(s, n + 1, Len(s))

\* os.path.splitext(p)[0] for a name without directory separators: split at
\* the last dot unless only dots precede it.
SplitExtRoot(s) ==
    LET dots == {i \in 1..Len(s) : s[i] = DOT}
        last == IF dots = {} THEN 0
                ELSE CHOOSE i \in dots : \A j \in dots : j <= i
    IN  IF last > 0 /\ \E i \in 1..(last - 1) : s[i] # DOT
        THEN SubSeq(s, 1, last - 1)
        ELSE s

\* Python's str < str: code-point lexicographic order
StrLess(a, b) ==
    \E k \in 1..Len(b) :
        /\ k <= Len(a) + 1
        /\ \A i \in 1..(k - 1) : a[i] = b[i]
        /\ (k = Len(a) + 1 \/ a[k] < b[k])

\* list.sort(): a stable insertion sort under StrLess
RECURSIVE InsertSorted(_, _)
InsertSorted(x, seq) ==
    IF seq = <<>> THEN <<x>>
    ELSE IF StrLess(x, Head(seq)) THEN <<x>> \o seq
    ELSE <<Head(seq)>> \o InsertSorted(x, Tail(seq))

RECURSIVE SortNames(_)
SortNames(seq) ==
    IF seq = <<>> THEN <<>>
    ELSE InsertSorted(seq[Len(seq)], SortNames(SubSeq(seq, 1, Len(seq) - 1)))

Range(seq) == {seq[i] : i \in 1..Len(seq)}

-----------------------------------------------------------------------------
(* Filesystem *)

WORK_DIR == "work"
EXT_DIR == "ext"

Path(d, n) == [dir |-> d, name |-> n]
NoPath == Path("none", <<>>)

\* names that can occur in WORK_DIR
WorkNames == {N_B_JPEG, N_h_jpg, N_n_txt, N_e_png, N_e_jpg, N_p_jpg, N_index}

\* every path the model tracks: WORK_DIR's entries and one file outside it
Paths == {Path(WORK_DIR, n) : n \in WorkNames} \cup {Path(EXT_DIR, N_p_png)}

Absent == [kind |-> "absent"]
TextFile == [kind |-> "text"]
EmptyFile == [kind |-> "empty"]
Html(cards) == [kind |-> "html", cards |-> cards]

\* An image file: pixel size, PIL mode, container format, JPEG quality (0 when
\* not written by this tool), the picture it shows and how many times this
\* tool has re-encoded it.
Image(w, h, mode, fmt, q, pix, gen) ==
    [kind |-> "image", size |-> <<w, h>>, mode |-> mode, format |-> fmt,
     quality |-> q, pix |-> pix, gen |-> gen]

\* os.path.exists
Exists(f, p) == p \in Paths /\ f[p].kind # "absent"

\* the tracked content of WORK_DIR
Snapshot(f) == [n \in WorkNames |-> f[Path(WORK_DIR, n)]]

-----------------------------------------------------------------------------
(* convert_image *)

\* a plausible slip: abs() is missing, so only the upper bound is tested
CheckRatioNoAbs(size) ==
    LET w == size[1]
        h == size[2]
    IN  TOL_DEN * A4_DEN_HI * w - TOL_DEN * A4_NUM_HI * h - A4_DEN_HI * h
            + ((TOL_DEN * A4_DEN_LO * w - A4_DEN_LO * h) \div LIMB) < 0

\* check_a4_ratio: abs(width / height - A4_RATIO) < RATIO_TOLERANCE, i.e.
\*   -K*h < TOL_DEN * (K*w - M*h) < K*h
\* with K = A4_DEN_HI * LIMB + A4_DEN_LO and M = A4_NUM_HI * LIMB.  Both sides
\* are integers, so the exact comparison and the floating-point one agree
\* for every size used here (they differ by far more than one ulp).
\* upHi * LIMB + upLo = TOL_DEN * (K*w - M*h) - K*h  must be negative,
\* dnHi * LIMB + dnLo = TOL_DEN * (K*w - M*h) + K*h  must be positive.
check_a4_ratio(size) ==
    LET w == size[1]
        h == size[2]
        upHi == TOL_DEN * A4_DEN_HI * w - TOL_DEN * A4_NUM_HI * h - A4_DEN_HI * h
        upLo == TOL_DEN * A4_DEN_LO * w - A4_DEN_LO * h
        dnHi == TOL_DEN * A4_DEN_HI * w - TOL_DEN * A4_NUM_HI * h + A4_DEN_HI * h
        dnLo == TOL_DEN * A4_DEN_LO * w + A4_DEN_LO * h
        up == upHi + (upLo \div LIMB)
        dn == dnHi + (dnLo \div LIMB)
    IN  /\ up < 0
        /\ dn > 0 \/ (dn = 0 /\ dnLo % LIMB > 0)

\* PIL opens the file as an image (Image.open raises otherwise)
IsImage(c) == c.kind = "image"

\* the modes the source converts to RGB before saving
ConvertedModes == {"RGBA", "P"}

\* img.resize keeps the mode; then `if img_resized.mode in ('RGBA', 'P')`
SavedMode(mode) == IF mode \in ConvertedModes THEN "RGB" ELSE mode

\* the modes PIL's JPEG encoder accepts (JpegImagePlugin.RAWMODE)
JpegModes == {"1", "L", "RGB", "RGBX", "CMYK", "YCbCr"}

\* os.path.basename(input_path)
Basename(p) == p.name

\* output_path = os.path.join(WORK_DIR, f"{basename}.jpg")
OutputPath(input) == Path(WORK_DIR, SplitExtRoot(Basename(input)) \o EXT_JPG)

\* a plausible slip: the image is saved without having been resized
ConvertedNoResize(c) ==
    Image(c.size[1], c.size[2], SavedMode(c.mode), "JPEG", JPEG_QUALITY,
          c.pix, c.gen + 1)

\* what img_resized.save(output_path, 'JPEG', quality=JPEG_QUALITY) writes
Converted(c) ==
    Image(TARGET_WIDTH, TARGET_HEIGHT, SavedMode(c.mode), "JPEG", JPEG_QUALITY,
          c.pix, c.gen + 1)

\* a plausible slip: the input is moved rather than copied
FsAfterSaveRemovingInput(f, input) ==
    [p \in Paths |->
        IF p = Path(WORK_DIR, SplitExtRoot(input.name) \o EXT_JPG)
        THEN Image(TARGET_WIDTH, TARGET_HEIGHT,
                   IF f[input].mode \in ConvertedModes THEN "RGB" ELSE f[input].mode,
                   "JPEG", JPEG_QUALITY, f[input].pix, f[input].gen + 1)
        ELSE IF p = input THEN Absent
        ELSE f[p]]

\* the filesystem after a successful save: only output_path changes
FsAfterSave(f, input) ==
    [f EXCEPT ![OutputPath(input)] = Converted(f[input])]

\* Image.save opens output_path with "w+b" before encoding; when the encoder
\* refuses the mode, an existing file is left truncated, and a newly created
\* one is left empty or removed, depending on the PIL version.
FsAfterFailedSave(f, input) ==
    IF Exists(f, OutputPath(input))
    THEN {[f EXCEPT ![OutputPath(input)] = EmptyFile]}
    ELSE {f, [f EXCEPT ![OutputPath(input)] = EmptyFile]}

-----------------------------------------------------------------------------
(* generate_index_html *)

\* a plausible slip: .lower() is missing
IsListedNoLower(f) ==
    /\ \/ EndsWith(f, EXT_JPG)
       \/ EndsWith(f, EXT_JPEG)
       \/ EndsWith(f, EXT_PNG)
    /\ ~StartsWith(f, <<DOT>>)

\* f.lower().endswith(('.jpg', '.jpeg', '.png')) and not f.startswith('.')
IsListed(f) ==
    /\ \/ EndsWith(Lower(f), EXT_JPG)
       \/ EndsWith(Lower(f), EXT_JPEG)
       \/ EndsWith(Lower(f), EXT_PNG)
    /\ ~StartsWith(f, <<DOT>>)

\* os.listdir(WORK_DIR) returns the entries in an order the platform picks;
\* two orders are explored, descending code-point order and ascending.
RECURSIVE Descending(_)
Descending(S) ==
    IF S = {} THEN <<>>
    ELSE LET m == CHOOSE x \in S : \A y \in S : y = x \/ StrLess(y, x)
         IN  <<m>> \o Descending(S \ {m})

Reverse(seq) == [i \in 1..Len(seq) |-> seq[Len(seq) + 1 - i]]

ListDirs(f) ==
    LET present == {n \in WorkNames : Exists(f, Path(WORK_DIR, n))}
    IN  {Descending(present), Reverse(Descending(present))}

\* [f for f in listing if ...]
RECURSIVE FilterListed(_)
FilterListed(listing) ==
    IF listing = <<>> THEN <<>>
    ELSE IF IsListed(Head(listing))
         THEN <<Head(listing)>> \o FilterListed(Tail(listing))
         ELSE FilterListed(Tail(listing))

\* images = [...]; images.sort()
SortedImages(listing) == SortNames(FilterListed(listing))

\* one card: display name, img src, and the URL's file part
Card(img_file) ==
    [display |-> LStripUnderscore(SplitExtRoot(img_file)),
     src |-> img_file,
     url |-> img_file]

\* the page written to index.html
IndexPage(listing) ==
    LET images == SortedImages(listing)
    IN  Html([i \in 1..Len(images) |-> Card(images[i])])

IndexPath == Path(WORK_DIR, N_index)

-----------------------------------------------------------------------------
(* git *)

\* `git commit -m message`: with nothing staged against HEAD git exits 1 and
\* prints "nothing to commit"; otherwise it commits (0) or fails (1) without
\* that text.
CommitResults(stg, hd) ==
    IF stg = hd
    THEN {[returncode |-> 1, nothing |-> TRUE]}
    ELSE {[returncode |-> 0, nothing |-> FALSE],
          [returncode |-> 1, nothing |-> FALSE]}

\* `git add .` and `git push` exit 0 or nonzero
ReturnCodes == {0, 1}

\* one subprocess.run: the subcommand and what the code reads of its result
Ran(cmd, rc, nothing) == [cmd |-> cmd, returncode |-> rc, nothing |-> nothing]

-----------------------------------------------------------------------------
(* The inputs explored *)

\* pixel sizes of the image given on the command line: the spec's two
\* end-to-end sizes, the target size itself, and sizes just inside and just
\* outside the tolerance on both sides
InputSizes ==
    {<<1190, 1684>>, <<595, 842>>, <<1000, 1000>>,
     <<727, 1000>>, <<728, 1000>>, <<688, 1000>>, <<687, 1000>>}

InputModes == {"RGB", "RGBA", "P", "L", "LA"}

\* what ext/p.png can be: a PNG of any explored size (in RGB) or of the A4
\* size in any explored mode, a file that is no image, or missing
ExtContents ==
    {Image(sz[1], sz[2], "RGB", "PNG", 0, "A", 0) : sz \in InputSizes}
    \cup {Image(1190, 1684, m, "PNG", 0, "A", 0) : m \in InputModes}
    \cup {TextFile, Absent}

\* files that may lie in WORK_DIR beforehand
Preexisting ==
    [n \in {N_B_JPEG, N_h_jpg, N_n_txt, N_e_png, N_p_jpg} |->
        IF n = N_B_JPEG THEN Image(800, 600, "RGB", "JPEG", 0, "B", 0)
        ELSE IF n = N_h_jpg THEN Image(595, 842, "RGB", "JPEG", 0, "H", 0)
        ELSE IF n = N_n_txt THEN TextFile
        ELSE IF n = N_e_png THEN Image(595, 842, "RGBA", "PNG", 0, "E", 0)
        ELSE Image(1190, 1684, "RGB", "JPEG", 0, "P", 0)]

\* the command lines explored: no argument, one path, two paths
ArgLists ==
    {<<>>,
     <<Path(EXT_DIR, N_p_png)>>,
     <<Path(WORK_DIR, N_p_jpg)>>,
     <<Path(WORK_DIR, N_e_png)>>,
     <<Path(EXT_DIR, N_p_png), Path(WORK_DIR, N_e_png)>>}

InitialFs(ext, pre) ==
    [p \in Paths |->
        IF p.dir = EXT_DIR THEN ext
        ELSE IF p.name \in pre THEN Preexisting[p.name]
        ELSE Absent]

-----------------------------------------------------------------------------
(* The process *)

Init ==
    /\ pc = "Start"
    /\ argv \in ArgLists
    /\ \E ext \in ExtContents, pre \in SUBSET DOMAIN Preexisting :
           fs = InitialFs(ext, pre)
    /\ fs0 = fs
    /\ staged = Snapshot(fs)
    /\ head = Snapshot(fs)
    /\ remote = Snapshot(fs)
    /\ lastMsg = <<>>
    /\ cmds = <<>>
    /\ written = {}
    /\ stdout = <<>>
    /\ exitCode = -1
    /\ outPath = NoPath
    /\ run = 1

git == <<staged, head, remote, lastMsg>>

\* print(...); sys.exit(1)
Die(msg) ==
    /\ stdout' = Append(stdout, msg)
    /\ exitCode' = 1
    /\ pc' = "Failed"

\* an exception nobody catches: traceback on stderr, exit status 1
Raise ==
    /\ stdout' = stdout
    /\ exitCode' = 1
    /\ pc' = "Failed"

\* a plausible variant: the error exits clean up the converted file
FsAfterExitCleanup(f, out) == IF out \in Paths THEN [f EXCEPT ![out] = Absent] ELSE f

\* what is on disk once the process has exited on an error after convert_image
\* returned: the exit paths remove nothing
FsAfterExit(f, out) == f

\* main: if len(sys.argv) < 2
UsageError(args) == Len(args) < 1

CheckArgs ==
    /\ pc = "Start"
    /\ IF UsageError(argv)
       THEN Die("usage")
       ELSE /\ pc' = "Validate"
            /\ UNCHANGED <<stdout, exitCode>>
    /\ UNCHANGED <<argv, fs, git, cmds, written, outPath, fs0, run>>

\* input_path = sys.argv[1]
InputPath == argv[1]

\* main: os.path.exists check; convert_image: Image.open and the ratio check
Validate ==
    /\ pc = "Validate"
    /\ IF ~Exists(fs, InputPath) THEN Die("notfound")
       ELSE IF ~IsImage(fs[InputPath]) THEN Raise
       ELSE IF ~check_a4_ratio(fs[InputPath].size) THEN Die("ratio")
       ELSE /\ pc' = "Convert"
            /\ UNCHANGED <<stdout, exitCode>>
    /\ UNCHANGED <<argv, fs, git, cmds, written, outPath, fs0, run>>

\* convert_image: resize, mode conversion, save
Convert ==
    /\ pc = "Convert"
    /\ written' = written \cup {OutputPath(InputPath)}
    /\ IF SavedMode(fs[InputPath].mode) \in JpegModes
       THEN /\ fs' = FsAfterSave(fs, InputPath)
            /\ stdout' = Append(stdout, "converted")
            /\ outPath' = OutputPath(InputPath)
            /\ pc' = "GenerateIndex"
            /\ UNCHANGED exitCode
       ELSE /\ fs' \in FsAfterFailedSave(fs, InputPath)
            /\ Raise
            /\ UNCHANGED outPath
    /\ UNCHANGED <<argv, git, cmds, fs0, run>>

\* generate_index_html: list, filter, sort, render, write; or open() raises
GenerateIndex ==
    /\ pc = "GenerateIndex"
    /\ \/ /\ \E listing \in ListDirs(fs) :
                 fs' = [fs EXCEPT ![IndexPath] = IndexPage(listing)]
          /\ written' = written \cup {IndexPath}
          /\ stdout' = Append(stdout, "index")
          /\ pc' = "Stage"
          /\ UNCHANGED exitCode
       \/ /\ Raise
          /\ fs' = FsAfterExit(fs, outPath)
          /\ UNCHANGED written
    /\ UNCHANGED <<argv, git, cmds, outPath, fs0, run>>

\* a plausible slip: the failure is printed but sys.exit(1) is missing
AddBranchNoExit(rc) == "Commit"

\* git_push after git add: if result.returncode != 0: print, sys.exit(1)
AddBranch(rc) == IF rc # 0 THEN "Failed" ELSE "Commit"

\* git_push: git add .
Stage ==
    /\ pc = "Stage"
    /\ \E rc \in ReturnCodes :
          /\ cmds' = Append(cmds, Ran("add", rc, FALSE))
          /\ staged' = IF rc = 0 THEN Snapshot(fs) ELSE staged
          /\ IF AddBranch(rc) = "Failed"
             THEN /\ Die("addfail")
                  /\ fs' = FsAfterExit(fs, outPath)
             ELSE /\ pc' = "Commit"
                  /\ UNCHANGED <<stdout, exitCode, fs>>
    /\ UNCHANGED <<argv, head, remote, lastMsg, written, outPath, fs0, run>>

\* a plausible slip: every nonzero commit status is taken as "nothing to commit"
CommitBranchAllBenign(r) == IF r.returncode # 0 THEN "SkipPush" ELSE "Push"

\* a plausible slip: the "nothing to commit" test is missing
CommitBranchNoSkip(r) == IF r.returncode # 0 THEN "Failed" ELSE "Push"

\* git_push after git commit: nonzero with "nothing to commit" returns,
\* any other nonzero status exits, zero goes on to push
CommitBranch(r) ==
    IF r.returncode # 0
    THEN IF r.nothing THEN "SkipPush" ELSE "Failed"
    ELSE "Push"

\* git_push: git commit -m "Add <basename>"
Commit ==
    /\ pc = "Commit"
    /\ \E r \in CommitResults(staged, head) :
          /\ cmds' = Append(cmds, Ran("commit", r.returncode, r.nothing))
          /\ IF r.returncode = 0
             THEN /\ head' = staged
                  /\ lastMsg' = Basename(outPath)
             ELSE UNCHANGED <<head, lastMsg>>
          /\ IF CommitBranch(r) = "Failed"
             THEN /\ Die("commitfail")
                  /\ fs' = FsAfterExit(fs, outPath)
             ELSE IF CommitBranch(r) = "SkipPush"
             THEN /\ stdout' = Append(stdout, "nochange")
                  /\ pc' = "SkipPush"
                  /\ UNCHANGED <<exitCode, fs>>
             ELSE /\ pc' = "Push"
                  /\ UNCHANGED <<stdout, exitCode, fs>>
    /\ UNCHANGED <<argv, staged, remote, written, outPath, fs0, run>>

\* main after git_push returns: print, fall off the end, exit status 0
Finish(msgs) ==
    /\ stdout' = stdout \o msgs
    /\ exitCode' = 0
    /\ pc' = "Done"

\* git_push after git push: if result.returncode != 0: print, sys.exit(1)
PushBranch(rc) == IF rc # 0 THEN "Failed" ELSE "Done"

\* git_push: git push
Push ==
    /\ pc = "Push"
    /\ \E rc \in ReturnCodes :
          /\ cmds' = Append(cmds, Ran("push", rc, FALSE))
          /\ remote' = IF rc = 0 THEN head ELSE remote
          /\ IF PushBranch(rc) = "Failed"
             THEN /\ Die("pushfail")
                  /\ fs' = FsAfterExit(fs, outPath)
             ELSE /\ Finish(<<"pushed", "done">>)
                  /\ UNCHANGED fs
    /\ UNCHANGED <<argv, staged, head, lastMsg, written, outPath, fs0, run>>

\* git_push returned early: no push
SkipPush ==
    /\ pc = "SkipPush"
    /\ Finish(<<"done">>)
    /\ UNCHANGED <<argv, fs, git, cmds, written, outPath, fs0, run>>

\* the tool is invoked again on the same working directory
NewRun ==
    /\ pc \in {"Done", "Failed"}
    /\ run < MaxRuns
    /\ run' = run + 1
    /\ argv' \in ArgLists
    /\ pc' = "Start"
    /\ cmds' = <<>>
    /\ written' = {}
    /\ stdout' = <<>>
    /\ exitCode' = -1
    /\ outPath' = NoPath
    /\ fs0' = fs
    /\ UNCHANGED <<fs, git>>

Next ==
    \/ CheckArgs
    \/ Validate
    \/ Convert
    \/ GenerateIndex
    \/ Stage
    \/ Commit
    \/ Push
    \/ SkipPush
    \/ NewRun

Spec == Init /\ [][Next]_vars

-----------------------------------------------------------------------------
(* Shared vocabulary of the properties *)

Running == {"Start", "Validate", "Convert", "GenerateIndex", "Stage", "Commit",
            "Push", "SkipPush"}
Terminal == {"Done", "Failed"}

\* the state machine's success edges
SuccessEdges ==
    {<<"Start", "Validate">>, <<"Validate", "Convert">>,
     <<"Convert", "GenerateIndex">>, <<"GenerateIndex", "Stage">>,
     <<"Stage", "Commit">>, <<"Commit", "Push">>, <<"Commit", "SkipPush">>,
     <<"Push", "Done">>, <<"SkipPush", "Done">>}

HasArg == Len(argv) >= 1

LastCmd == cmds[Len(cmds)]

CmdNames == [i \in 1..Len(cmds) |-> cmds[i].cmd]

\* the step at `from` has done its work and succeeded, seen across one step
Succeeded(from) ==
    CASE from = "Start" -> HasArg
      [] from = "Validate" ->
            /\ Exists(fs, InputPath)
            /\ IsImage(fs[InputPath])
            /\ check_a4_ratio(fs[InputPath].size)
      [] from = "Convert" ->
            /\ outPath' = OutputPath(InputPath)
            /\ outPath' \in written'
            /\ fs'[outPath'].kind = "image"
            /\ fs'[outPath'].format = "JPEG"
      [] from = "GenerateIndex" ->
            /\ IndexPath \in written'
            /\ fs'[IndexPath].kind = "html"
      [] from = "Stage" ->
            /\ cmds' = Append(cmds, Ran("add", 0, FALSE))
            /\ staged' = Snapshot(fs)
      [] from = "Commit" ->
            /\ Len(cmds') = Len(cmds) + 1
            /\ cmds'[Len(cmds')].cmd = "commit"
            /\ IF pc' = "Push"
               THEN cmds'[Len(cmds')].returncode = 0 /\ head' = staged
               ELSE cmds'[Len(cmds')].nothing /\ head' = head
      [] from = "Push" ->
            /\ cmds' = Append(cmds, Ran("push", 0, FALSE))
            /\ remote' = head
      [] OTHER -> TRUE

\* C1: within one run the steps occur only in the order Start, Validate,
\* Convert, GenerateIndex, Stage, Commit, Push or SkipPush, Done; a step is
\* entered only when the one before it has succeeded; any failure goes
\* straight to Failed; and from Failed (or Done) the process does nothing
\* more: no file write, no git command, no output.  Files change only in
\* Convert and GenerateIndex and git commands run only in Stage, Commit, Push.
StepOrder ==
    [][ IF run' # run
        THEN pc \in Terminal /\ pc' = "Start"
        ELSE /\ pc' # pc => /\ pc \in Running
                            /\ \/ pc' = "Failed"
                               \/ <<pc, pc'>> \in SuccessEdges /\ Succeeded(pc)
             /\ pc \in Terminal =>
                   UNCHANGED <<pc, fs, git, cmds, written, stdout, exitCode>>
             /\ fs' # fs => pc \in {"Convert", "GenerateIndex"}
             /\ written' # written => pc \in {"Convert", "GenerateIndex"}
             /\ cmds' # cmds => pc \in {"Stage", "Commit", "Push"}
             /\ <<staged', head', remote'>> # <<staged, head, remote>> =>
                   pc \in {"Stage", "Commit", "Push"}
      ]_vars

\* C1 witness: a run that went through every step to Done with a push
StepOrderWitness ==
    /\ pc = "Done"
    /\ CmdNames = <<"add", "commit", "push">>
    /\ stdout = <<"converted", "index", "pushed", "done">>

\* the run did everything: converted, wrote the index, staged, and either
\* committed and pushed or found nothing to commit
CompletedFully ==
    /\ pc = "Done"
    /\ HasArg
    /\ outPath = OutputPath(InputPath)
    /\ {outPath, IndexPath} \subseteq written
    /\ fs[outPath].kind = "image"
    /\ fs[IndexPath].kind = "html"
    /\ \/ cmds = <<Ran("add", 0, FALSE), Ran("commit", 0, FALSE),
                   Ran("push", 0, FALSE)>>
       \/ cmds = <<Ran("add", 0, FALSE), Ran("commit", 1, TRUE)>>

\* a size whose ratio is certainly outside the tolerance: A4_RATIO lies in
\* (0.70710, 0.70711), so ratio >= 0.728 or ratio <= 0.687 is at least 0.02 off
ClearlyOutside(size) ==
    \/ 1000 * size[1] >= 728 * size[2]
    \/ 1000 * size[1] <= 687 * size[2]

\* the input named on the command line was, at process start, ...
InputMissing == HasArg /\ ~Exists(fs0, InputPath)
InputOutside ==
    /\ HasArg
    /\ Exists(fs0, InputPath)
    /\ IsImage(fs0[InputPath])
    /\ ClearlyOutside(fs0[InputPath].size)

\* some git command returned nonzero other than "nothing to commit"
GitFailed == \E i \in 1..Len(cmds) : cmds[i].returncode # 0 /\ ~cmds[i].nothing

\* C2: the exit code is 0 exactly when the run completed fully (the
\* "nothing to commit" path included) and 1 otherwise; in particular it is 1
\* whenever the input is missing, the ratio is out of tolerance, or git add,
\* commit (other than "nothing to commit") or push returned nonzero.  While
\* the process runs there is no exit code.
ExitCodeContract ==
    /\ pc \in Running => exitCode = -1
    /\ pc \in Terminal =>
          /\ exitCode \in {0, 1}
          /\ exitCode = 0 <=> CompletedFully
          /\ (InputMissing \/ InputOutside \/ GitFailed) => exitCode = 1
          /\ (cmds # <<>> /\ LastCmd.nothing) => exitCode = 0

\* C2 witness: exit code 0 on the "nothing to commit" path
ExitZeroOnNothingToCommit ==
    /\ pc = "Done"
    /\ exitCode = 0
    /\ cmds = <<Ran("add", 0, FALSE), Ran("commit", 1, TRUE)>>

\* C3: when the input image's ratio is out of tolerance, the run has failed
\* with exit code 1 as soon as validation is over, having printed only the
\* ratio diagnostic, written no file (the filesystem is as it was at process
\* start; neither the JPEG nor index.html was opened) and run no git command.
RatioRejected ==
    (InputOutside /\ pc \notin {"Start", "Validate"}) =>
        /\ pc = "Failed"
        /\ exitCode = 1
        /\ stdout = <<"ratio">>
        /\ written = {}
        /\ fs = fs0
        /\ cmds = <<>>

\* C3 witness: the spec's 1000x1000 input was rejected
RatioRejectedWitness ==
    /\ pc = "Failed"
    /\ InputOutside
    /\ fs0[InputPath].size = <<1000, 1000>>
    /\ stdout = <<"ratio">>

Abs(x) == IF x < 0 THEN -x ELSE x

\* |width/height - 0.707| < 0.02, the tolerance as the claim words it
WithinTwoPercent(size) == Abs(1000 * size[1] - 707 * size[2]) < 20 * size[2]

\* C4 (refuted by the code): every image whose ratio lies within 2% of 0.707
\* is converted: once the run is past Convert, "converted" was printed and
\* the output file is an image of exactly TARGET_WIDTH x TARGET_HEIGHT.
ConversionSucceedsInTolerance ==
    ( /\ HasArg
      /\ Exists(fs0, InputPath)
      /\ IsImage(fs0[InputPath])
      /\ WithinTwoPercent(fs0[InputPath].size)
      /\ pc \notin {"Start", "Validate", "Convert"} ) =>
        /\ "converted" \in Range(stdout)
        /\ fs[OutputPath(InputPath)].kind = "image"
        /\ fs[OutputPath(InputPath)].size = <<TARGET_WIDTH, TARGET_HEIGHT>>

\* the claim's side of "qualifying image file": the name ends, ignoring case,
\* in .jpg, .jpeg or .png and does not start with a dot
Qualifies(n) ==
    /\ \E e \in {EXT_JPG, EXT_JPEG, EXT_PNG} :
          /\ Len(n) >= Len(e)
          /\ \A k \in 1..Len(e) : LowerChar(n[Len(n) - Len(e) + k]) = e[k]
    /\ n[1] # DOT

QualifyingFiles == {n \in WorkNames : Exists(fs, Path(WORK_DIR, n)) /\ Qualifies(n)}

\* C5: the index page this run wrote has exactly one card per qualifying
\* file of WORK_DIR, none for any other file, and the cards are in strictly
\* ascending code-point order of file name (so none is repeated).  The card
\* list is thereby fixed by the directory content alone, whatever index.html
\* held before and in whatever order the directory was listed.
IndexListsExactly ==
    IndexPath \in written =>
        LET page == fs[IndexPath] IN
        /\ page.kind = "html"
        /\ {page.cards[i].src : i \in 1..Len(page.cards)} = QualifyingFiles
        /\ \A i, j \in 1..Len(page.cards) :
              i < j => StrLess(page.cards[i].src, page.cards[j].src)
        /\ \A i \in 1..Len(page.cards) : page.cards[i].url = page.cards[i].src

\* C5 witness: a second run replaced a different earlier page, with a hidden
\* image, a non-image and an upper-case extension in the directory
IndexWitness ==
    /\ IndexPath \in written
    /\ fs0[IndexPath].kind = "html"
    /\ fs0[IndexPath] # fs[IndexPath]
    /\ Exists(fs, Path(WORK_DIR, N_h_jpg))
    /\ Exists(fs, Path(WORK_DIR, N_n_txt))
    /\ Exists(fs, Path(WORK_DIR, N_B_JPEG))
    /\ Len(fs[IndexPath].cards) >= 3

\* C6: when staging left nothing to commit, git commit's "nothing to commit"
\* is detected: the run goes to SkipPush without failing, and from there to
\* Done with exit code 0 without running git push or touching the remote.
\* Conversely git push runs only right after a git commit that returned 0.
PublishNoOp ==
    [][ /\ (pc = "Commit" /\ staged = head) =>
              /\ pc' = "SkipPush"
              /\ cmds' = Append(cmds, Ran("commit", 1, TRUE))
              /\ stdout' = Append(stdout, "nochange")
              /\ exitCode' = -1
        /\ pc = "SkipPush" =>
              /\ pc' = "Done"
              /\ exitCode' = 0
              /\ UNCHANGED <<cmds, remote, head>>
        /\ pc' = "SkipPush" => pc = "Commit" /\ staged = head
        /\ (run' = run /\ cmds' # cmds /\ cmds'[Len(cmds')].cmd = "push") =>
              /\ pc = "Push"
              /\ cmds # <<>>
              /\ LastCmd = Ran("commit", 0, FALSE)
        /\ pc' = "Push" => cmds'[Len(cmds')] = Ran("commit", 0, FALSE)
      ]_vars

\* C6 witness: a run on the point of skipping the push, nothing to commit
PublishNoOpWitness ==
    /\ pc = "SkipPush"
    /\ staged = head
    /\ LastCmd = Ran("commit", 1, TRUE)
    /\ "push" \notin Range(CmdNames)

\* the files the index page lists
ListedFiles ==
    IF fs[IndexPath].kind = "html"
    THEN {fs[IndexPath].cards[i].src : i \in 1..Len(fs[IndexPath].cards)}
    ELSE {}

IsTargetJpeg(c) ==
    /\ c.kind = "image"
    /\ c.size = <<TARGET_WIDTH, TARGET_HEIGHT>>
    /\ c.format = "JPEG"
    /\ c.quality = JPEG_QUALITY

ConvertLeavesInputUnaltered ==
    pc = "GenerateIndex" =>
        /\ written = {Path(WORK_DIR, SplitExtRoot(InputPath.name) \o EXT_JPG)}
        /\ \A p \in Paths \ written : fs[p] = fs0[p]
        /\ fs[InputPath] = fs0[InputPath]

\* C8 as amended: right after a successful convert_image the only file
\* opened for writing is WORK_DIR/<base>.jpg, which now holds the converted
\* image; every other file is as it was at process start; the input still
\* exists under its name, and is unaltered unless the input path is itself
\* WORK_DIR/<base>.jpg, in which case it has been overwritten by the output.
ConvertWritesOneFile ==
    pc = "GenerateIndex" =>
        LET out == Path(WORK_DIR, SplitExtRoot(InputPath.name) \o EXT_JPG) IN
        /\ written = {out}
        /\ outPath = out
        /\ IsTargetJpeg(fs[out])
        /\ fs[out].pix = fs0[InputPath].pix
        /\ fs[out].gen = fs0[InputPath].gen + 1
        /\ \A p \in Paths \ {out} : fs[p] = fs0[p]
        /\ Exists(fs, InputPath)
        /\ InputPath # out => fs[InputPath] = fs0[InputPath]

\* C8 witness: the input was WORK_DIR/<base>.jpg itself and was overwritten
InPlaceConvertWitness ==
    /\ pc = "GenerateIndex"
    /\ InputPath = outPath
    /\ fs0[InputPath].size = <<1190, 1684>>
    /\ fs[InputPath].size = <<TARGET_WIDTH, TARGET_HEIGHT>>

\* C9 (refuted by the code): any argument count other than one is a usage
\* error: the run fails at once with exit code 1 and the usage diagnostic,
\* having validated, written and published nothing.
WrongArgCountIsUsageError ==
    (Len(argv) # 1 /\ pc # "Start") =>
        /\ pc = "Failed"
        /\ exitCode = 1
        /\ stdout = <<"usage">>
        /\ written = {}
        /\ fs = fs0
        /\ cmds = <<>>

\* C10: no rollback.  Within a run, once convert_image has returned, the
\* output file stays on disk unchanged in every later step, the steps into
\* Failed included; and once index.html is written it stays as written.
NoRollback ==
    [][ run' = run =>
          /\ outPath # NoPath =>
                /\ outPath' = outPath
                /\ IsTargetJpeg(fs[outPath])
                /\ fs'[outPath] = fs[outPath]
          /\ IndexPath \in written =>
                /\ fs[IndexPath].kind = "html"
                /\ fs'[IndexPath] = fs[IndexPath]
      ]_vars

\* C10 witness: a run that failed at git push with both files still on disk
NoRollbackWitness ==
    /\ pc = "Failed"
    /\ outPath # NoPath
    /\ cmds # <<>>
    /\ LastCmd = Ran("push", 1, FALSE)
    /\ IsTargetJpeg(fs[outPath])
    /\ fs[outPath] # fs0[outPath]
    /\ fs[IndexPath].kind = "html"

====
